---- MODULE Spec2Model ----
(***************************************************************************)
(* A model of the Reddit client of src/yars/yars.py (class YARS): the      *)
(* paginated listing fetches fetch_subreddit_posts and scrape_user_data,   *)
(* the one-shot fetches handle_search (search_reddit, search_subreddit)    *)
(* and scrape_post_details, over a transport (session.get) whose answers   *)
(* are chosen by the server.  One behaviour is one call of one function.   *)
(***************************************************************************)
EXTENDS Integers, Sequences, FiniteSets, TLC

\* ------------------------------------------------------------------ bounds
\* The largest small `limit` a caller passes (BigLimit is passed as well).
MaxLimit == 3
\* The largest number of children the server puts in one page.
MaxChildren == 2
\* The largest number of children the server serves over one call.
MaxFeed == 4
\* The largest number of nodes in a raw comment listing.
MaxNodes == 4
\* Posts in the listing scrape_subreddit_data walks.
MaxPosts == 3
\* Data rows a sheet grows to.
MaxRows == 3
\* Posts in the list passed to batch_add_to_sheets.
MaxBatch == 3
\* API keys configured for the Puter service.
MaxKeys == 3

\* ------------------------------------------------------- program constants
\* min(100, limit): the page size cap of fetch_subreddit_posts.
PageCap == 100
\* The status for which the except branches do not give up.
StatusOK == 200
\* A status the Puter client reports as an error.
Unauthorized == 401
\* Retry(total=5): the retries the transport allows per request.
RetryTotal == 5

\* -------------------------------------------------------------- data model
\* Python's None, and the mark of a key that a JSON object does not carry.
None == "None"
NoKey == "<no key>"

Min(a, b) == IF a <= b THEN a ELSE b
SetMax(S) == CHOOSE x \in S : \A y \in S : y <= x

\* `not v` for a cursor: None and the empty string are falsy.
Falsy(v) == v \in {None, ""}

\* The cursors the server may put in data.after.
Cursors == {None, "", "t3_a"}

\* link_flair_text of a post: absent, or a value ("B" stands for every value,
\* null included, that is not in the filter).
Flairs == {NoKey, "A", "B"}

\* The kind discriminator of a listing child.
Kinds == {"t3", "t1", "more"}

\* The limits a caller passes: 0..MaxLimit and one above the page cap.
BigLimit == PageCap + 1
Limits == (0 .. MaxLimit) \cup {BigLimit}

\* The filter argument: None, a list, or another iterable (a tuple).
FilterArgs ==
    { [type |-> "NoneType", items |-> {}],
      [type |-> "list", items |-> {}],
      [type |-> "list", items |-> {"A"}],
      [type |-> "tuple", items |-> {"A"}] }

NoFilter == [type |-> "NoneType", items |-> {}]

\* The category argument: the six the code accepts and two it does not.
Categories == {"hot", "top", "new", "userhot", "usertop", "usernew", "rising", "bogus"}

\* The time_filter argument (the default and another window).
TimeFilters == {"all", "week"}

\* The calls of fetch_subreddit_posts followed: every limit and filter with
\* "hot" (an accepted category only selects the URL, time_filter is only sent
\* on), every category and time_filter with one limit and no filter, and
\* every limit, time_filter and filter with the categories not accepted.
FetchInputs ==
    { <<c, l, t, f>> \in Categories \X Limits \X TimeFilters \X FilterArgs :
        \/ c = "hot" /\ t = "all"
        \/ l = 1 /\ f = NoFilter
        \/ c \in {"rising", "bogus"} }

\* A listing child: its identity (its place in the server's feed), kind and flair.
Child(i, k, f) == [id |-> i, kind |-> k, flair |-> f]

\* The children sequences of a page that follows s served children, kinds from K
\* and flairs from F.
ChildSeqs(s, K, F) ==
    UNION { { [i \in 1 .. n |-> Child(s + i, ks[i], fs[i])] :
                ks \in [1 .. n -> K], fs \in [1 .. n -> F] } :
            n \in 0 .. Min(MaxChildren, MaxFeed - s) }

\* A response body: a listing, a JSON document without data/children, or no JSON.
ListingBody(ch, a) == [json |-> "listing", children |-> ch, after |-> a]
NoDataBody == [json |-> "nodata", children |-> <<>>, after |-> None]
BadJsonBody == [json |-> "invalid", children |-> <<>>, after |-> None]
\* The mark of a list element that is not a mapping.
NotDict == "<not a dict>"

\* A node of a raw comment listing. Its author is its place in the listing
\* (the path of sibling positions from the top), its score the last position.
RawNode(kind, path, replies) ==
    [kind |-> kind, author |-> path, body |-> "text", score |-> path[Len(path)],
     replies |-> replies]

\* The replies field: the "" sentinel, no such key, or a nested listing.
NoReplies == [type |-> "str", children |-> <<>>]
AbsentReplies == [type |-> "absent", children |-> <<>>]
RepliesListing(children) == [type |-> "dict", children |-> children]

\* RawListings(n, path, i): the raw comment listings of exactly n nodes whose
\* first element is sibling i below path. RawTrees(k, p): the nodes at path p
\* with exactly k nodes below them.
RECURSIVE RawListings(_, _, _), RawTrees(_, _)
RawListings(n, path, i) ==
    IF n = 0
    THEN {<<>>}
    ELSE UNION { { <<node>> \o rest :
                     node \in RawTrees(k, path \o <<i>>),
                     rest \in RawListings(n - 1 - k, path, i + 1) } :
                 k \in 0 .. n - 1 }
RawTrees(k, p) ==
    IF k = 0
    THEN { RawNode(NotDict, p, NoReplies), RawNode("more", p, NoReplies) }
         \cup { RawNode("t1", p, r) : r \in {NoReplies, AbsentReplies, RepliesListing(<<>>)} }
    ELSE { RawNode(kd, p, RepliesListing(ch)) :
             kd \in {"t1", "more"}, ch \in RawListings(k, p, 1) }

\* The raw comment listings of at most n nodes.
RawComments(n) == UNION { RawListings(m, <<>>, 1) : m \in 0 .. n }

\* The main post (element 0 of the detail document), with or without selftext.
MainPosts == { [title |-> "T", selftext |-> st] : st \in {NoKey, "S"} }

\* The body of the detail endpoint: a list of two listings (the main post and
\* the comments), a list of two elements of which the first has no children,
\* or a shorter list.
DetailBody(post, comments) ==
    [json |-> "detail", children |-> comments, after |-> None, post |-> post]
MalformedBody == [json |-> "malformed", children |-> <<>>, after |-> None]
ShortBody == [json |-> "short", children |-> <<>>, after |-> None]

\* The bodies of the detail endpoint with comment listings of at most n nodes.
DetailBodies(n) ==
    { DetailBody(post, cs) : post \in MainPosts, cs \in RawComments(n) }
    \cup {MalformedBody, ShortBody}

ListingBodies(s, K, F) ==
    { ListingBody(ch, a) : ch \in ChildSeqs(s, K, F), a \in Cursors }

\* The statuses of a response that session.get hands back.
ErrorStatuses == {403, 404}

\* What one session.get does: it raises (no response), or returns a response.
RaiseOutcome == [kind |-> "raise", status |-> 0, body |-> BadJsonBody]
ResponseOutcome(s, b) == [kind |-> "response", status |-> s, body |-> b]

Outcomes(bodies) ==
    {RaiseOutcome}
    \cup { ResponseOutcome(StatusOK, b) : b \in bodies \cup {NoDataBody, BadJsonBody} }
    \cup { ResponseOutcome(s, b) : s \in ErrorStatuses, b \in {NoDataBody, BadJsonBody} }

\* A created_utc value: a number of epoch seconds, None, or the empty string
\* (which is also what item_data.get("created_utc", "") gives without the key).
EpochValue(n) == [type |-> "int", v |-> n]
NoneValue == [type |-> "NoneType", v |-> 0]
EmptyString == [type |-> "str", v |-> 0]

\* Epoch seconds: the first and last seconds of a few days, among them
\* 1970-01-01, 2000-02-29, 2023-11-14 and 2024-12-31.
Epochs ==
    { d * 86400 + sec : d \in {0, 1, 59, 11016, 19675, 20088}, sec \in {0, 1, 3599, 86399} }

TimestampValues == { EpochValue(n) : n \in Epochs } \cup {NoneValue, EmptyString}

\* The local time zones followed: UTC-5, UTC and UTC+5:30.
TimeZones == {0 - 18000, 0, 19800}

\* The output file of example.py: missing, not valid JSON, or a JSON list of
\* records. A record is the post it was made from and the body scraped.
MissingFile == [state |-> "missing", records |-> <<>>]
CorruptFile == [state |-> "corrupt", records |-> <<>>]
ListFile(rs) == [state |-> "list", records |-> rs]
OutRecord(post, body) == [post |-> post, body |-> body]

\* The files a run may find: none, a corrupt one, and the lists earlier runs
\* leave (post 0 stands for a post of an earlier listing).
FoundFiles ==
    {MissingFile, CorruptFile, ListFile(<<>>), ListFile(<<OutRecord(0, "S")>>),
     ListFile(<<OutRecord(0, "S"), OutRecord(0, "")>>)}

\* The session.get that has not ended yet.
Pending == [kind |-> "pending", status |-> 0, body |-> BadJsonBody]

\* The local variable `response`: unassigned, None, or a Response object.
Unbound == [state |-> "unbound", status |-> 0, body |-> BadJsonBody]
NoneResponse == [state |-> "None", status |-> 0, body |-> BadJsonBody]
Response(o) == [state |-> "set", status |-> o.status, body |-> o.body]

\* response.raise_for_status() raises on 4xx and 5xx.
RaisesForStatus(s) == s >= 400 /\ s < 600

\* ------------------------------------------------------------------ state
VARIABLES
    pc,             \* position: idle, a loop position, done or raised
    fn,             \* the function called
    args,           \* its arguments: category, limit, time_filter, filter
    requests,       \* number of session.get calls issued
    served,         \* number of children the server has served
    feed,           \* the children the server has served, in order
    sent,           \* the params of the last request: limit, after
    outcome,        \* what the last session.get did: none, raise, response
    io,             \* the last I/O event: none, request, sleep
    sleeps,         \* number of time.sleep calls
    json_calls,     \* number of response.json() calls
    response,       \* local `response`
    data,           \* local `data`
    idx,            \* position of the for loop in the page's children
    batch_size, total_fetched, after, all_posts,   \* fetch_subreddit_posts
    count, params, all_items,                      \* scrape_user_data
    result,         \* the returned value
    exc,            \* the exception that escaped
    comments,       \* _extract_comments: the raw listing passed in
    retry_total,    \* the transport's Retry.total: retries still allowed
    attempts,       \* number of attempts of the current session.get
    seen,           \* what the server did at those attempts
    delivered,      \* what the session.get gave its caller, once it has
    stack,          \* _extract_comments: the active calls, outermost first
    max_depth,      \* the largest number of calls active at once so far
    unix_timestamp, \* _convert_timestamp: its argument (an item's created_utc)
    tz,             \* the local time zone in effect at the call: seconds east of UTC
    file,           \* example.py: the output file
    file0,          \* the output file as the run found it
    posts,          \* subreddit_posts: the listing the run walks
    ex_i,           \* position of the for loop in subreddit_posts
    existing_data,  \* local `existing_data`
    fetches,        \* the detail fetches made: post and how each ended
    writes,         \* number of times the file was rewritten
    sheet,          \* the Reddit data worksheet: its rows of cells
    sheet_before,   \* the worksheet as the call in progress (or last made) found it
    sh_post,        \* the post passed to add_to_sheet
    done_rows,      \* rows get_first_unprocessed_post returned and mark_post_as_done then marked
    batch,          \* batch_add_to_sheets: post_data_list
    delay,          \* its delay argument
    b_i,            \* position of its for loop
    successful_posts, \* its counter
    naps,           \* number of time.sleep(delay) calls it made
    api_keys_list,  \* puter_api.ChatCompletion.create: the keys it goes through
    tried,          \* the attempts it made: model, key position, what came back
    last_error,     \* its last_error
    p_i             \* position of the loop in progress

netVars == <<requests, served, feed, sent, outcome, io, sleeps, json_calls>>
frameVars == <<response, data, idx>>
fspVars == <<batch_size, total_fetched, after, all_posts>>
sudVars == <<count, params, all_items>>
retryVars == <<retry_total, attempts, seen, delivered>>
recVars == <<stack, max_depth>>
tsVars == <<unix_timestamp, tz>>
exVars == <<file, file0, posts, ex_i, existing_data, fetches, writes>>
puterVars == <<api_keys_list, tried, last_error, p_i>>
sheetVars == <<sheet, sheet_before, sh_post, done_rows>>
batchVars == <<batch, delay, b_i, successful_posts, naps>>
laterVars == <<recVars, tsVars, exVars, puterVars, sheetVars, batchVars>>
otherVars == <<comments, retryVars, laterVars>>
vars == <<pc, fn, args, netVars, frameVars, fspVars, sudVars, result, exc, otherVars>>

NoArgs == [category |-> None, limit |-> 0, time_filter |-> None, filter |-> NoFilter]
NoSent == [limit |-> 0, after |-> None]

Init ==
    /\ pc = "idle"
    /\ fn = "none"
    /\ args = NoArgs
    /\ requests = 0
    /\ served = 0
    /\ feed = <<>>
    /\ sent = NoSent
    /\ outcome = "none"
    /\ io = "none"
    /\ sleeps = 0
    /\ json_calls = 0
    /\ response = Unbound
    /\ data = NoDataBody
    /\ idx = 0
    /\ batch_size = 0
    /\ total_fetched = 0
    /\ after = None
    /\ all_posts = <<>>
    /\ count = 0
    /\ params = NoSent
    /\ all_items = <<>>
    /\ result = None
    /\ exc = None
    /\ comments = <<>>
    /\ retry_total = RetryTotal
    /\ attempts = 0
    /\ seen = {}
    /\ delivered = Pending
    /\ stack = <<>>
    /\ max_depth = 0
    /\ unix_timestamp = NoneValue
    /\ tz = 0
    /\ file = MissingFile
    /\ file0 = MissingFile
    /\ posts = <<>>
    /\ ex_i = 0
    /\ existing_data = <<>>
    /\ fetches = <<>>
    /\ writes = 0
    /\ sheet = <<>>
    /\ sheet_before = <<>>
    /\ sh_post = [title |-> <<>>, author |-> <<>>]
    /\ done_rows = {}
    /\ batch = <<>>
    /\ delay = 0
    /\ b_i = 0
    /\ successful_posts = 0
    /\ naps = 0
    /\ api_keys_list = <<>>
    /\ tried = <<>>
    /\ last_error = "None"
    /\ p_i = 0

\* `return v` and an exception that leaves the function.
Return(v) == pc' = "done" /\ result' = v /\ exc' = exc
Raise(e) == pc' = "raised" /\ exc' = e /\ result' = result

\* One session.get: counted, its params and outcome recorded.
Get(p, o) ==
    /\ requests' = requests + 1
    /\ served' = served + Len(o.body.children)
    /\ feed' = feed \o o.body.children
    /\ sent' = p
    /\ outcome' = o.kind
    /\ io' = "request"

\* ------------------------------------------------- fetch_subreddit_posts
ValidCategories == {"hot", "top", "new", "userhot", "usertop", "usernew"}

\* The check with one more category let through.
ValidCategoryLoose(c) == c \in ValidCategories \cup {"rising"}

ValidCategory(c) == c \in ValidCategories

\* The batch size without the page cap.
BatchSizeUncapped(limit) == limit

BatchSize(limit) == Min(PageCap, limit)

\* bool(response) as for a plain object: every Response is truthy.
ResponseTruthyObject(r) == r.state = "set"

\* bool(response): None is falsy, a Response is truthy exactly when it is ok.
ResponseTruthy(r) == r.state = "set" /\ ~RaisesForStatus(r.status)

\* The except branch of the page request keeps going (no break) in this case.
FspKeepsGoing(r) == ResponseTruthy(r) /\ r.status # StatusOK

\* A filter test that takes any non-empty iterable, not only a list.
FilterAppliesAnyType(filter, post) == filter.items # {} /\ post.flair # NoKey

\* The filter applies to a post: a non-empty list and a post carrying the key.
FilterApplies(filter, post) ==
    /\ filter.items # {}
    /\ filter.type = "list"
    /\ post.flair # NoKey

\* `continue`: the post is skipped.
Skipped(filter, post) == FilterApplies(filter, post) /\ post.flair \notin filter.items

\* post_info: post_data.get("link_flair_text", "").
PostInfo(post) ==
    [id |-> post.id, link_flair_text |-> IF post.flair = NoKey THEN "" ELSE post.flair]

\* The break taken one record late.
FspLimitReachedStrict(n, limit) == n > limit

\* `if total_fetched >= limit: break`.
FspLimitReached(n, limit) == n >= limit

FetchCall(category, limit, time_filter, filter) ==
    /\ pc = "idle"
    /\ fn' = "fetch_subreddit_posts"
    /\ args' = [category |-> category, limit |-> limit, time_filter |-> time_filter,
                 filter |-> filter]
    /\ IF ~ValidCategory(category)
       THEN /\ Raise("ValueError")
            /\ UNCHANGED fspVars
       ELSE /\ batch_size' = BatchSize(limit)
            /\ total_fetched' = 0
            /\ after' = None
            /\ all_posts' = <<>>
            /\ pc' = "fsp_while"
            /\ UNCHANGED <<result, exc>>
    /\ UNCHANGED <<otherVars, netVars, frameVars, sudVars>>

\* The while condition fails: the function returns all_posts.
FetchReturn ==
    /\ pc = "fsp_while"
    /\ ~(total_fetched < args.limit)
    /\ Return(all_posts)
    /\ UNCHANGED <<otherVars, fn, args, netVars, frameVars, fspVars, sudVars>>

\* One page request, its except branch, and the parse of the body.
FetchRequest(o) ==
    /\ pc = "fsp_while"
    /\ total_fetched < args.limit
    /\ Get([limit |-> batch_size, after |-> after], o)
    /\ LET r == IF o.kind = "raise" THEN NoneResponse ELSE Response(o)
           failed == o.kind = "raise" \/ RaisesForStatus(o.status)
       IN  /\ response' = r
           /\ IF failed /\ ~FspKeepsGoing(r)
              THEN /\ Return(all_posts)
                   /\ UNCHANGED <<json_calls, data, idx>>
              ELSE IF r.state # "set"
              THEN /\ Raise("AttributeError")
                   /\ UNCHANGED <<json_calls, data, idx>>
              ELSE /\ json_calls' = json_calls + 1
                   /\ IF r.body.json = "invalid"
                      THEN Raise("JSONDecodeError") /\ UNCHANGED <<data, idx>>
                      ELSE IF r.body.json # "listing"
                      THEN Raise("KeyError") /\ UNCHANGED <<data, idx>>
                      ELSE /\ data' = r.body
                           /\ IF r.body.children = <<>>
                              THEN Return(all_posts) /\ idx' = idx
                              ELSE /\ pc' = "fsp_for"
                                   /\ idx' = 1
                                   /\ UNCHANGED <<result, exc>>
    /\ UNCHANGED <<otherVars, fn, args, sleeps, fspVars, sudVars>>

\* One iteration of `for post in posts`.
FetchFor ==
    /\ pc = "fsp_for"
    /\ LET post == data.children[idx]
           last == idx = Len(data.children)
       IN  IF Skipped(args.filter, post)
           THEN /\ UNCHANGED <<all_posts, total_fetched>>
                /\ IF last THEN pc' = "fsp_after" /\ idx' = idx
                           ELSE pc' = pc /\ idx' = idx + 1
           ELSE /\ all_posts' = Append(all_posts, PostInfo(post))
                /\ total_fetched' = total_fetched + 1
                /\ IF FspLimitReached(total_fetched + 1, args.limit) \/ last
                   THEN pc' = "fsp_after" /\ idx' = idx
                   ELSE pc' = pc /\ idx' = idx + 1
    /\ UNCHANGED <<otherVars, fn, args, netVars, response, data, batch_size, after, sudVars,
                   result, exc>>

\* After the page: take the cursor, stop without one, else sleep and loop.
FetchAfter ==
    /\ pc = "fsp_after"
    /\ after' = data.after
    /\ IF Falsy(data.after)
       THEN /\ Return(all_posts)
            /\ UNCHANGED <<io, sleeps>>
       ELSE /\ sleeps' = sleeps + 1
            /\ io' = "sleep"
            /\ pc' = "fsp_while"
            /\ UNCHANGED <<result, exc>>
    /\ UNCHANGED <<otherVars, fn, args, requests, served, feed, sent, outcome, json_calls, frameVars,
                   batch_size, total_fetched, all_posts, sudVars>>

FetchSubredditPosts ==
    \/ \E i \in FetchInputs : FetchCall(i[1], i[2], i[3], i[4])
    \/ FetchReturn
    \/ \E o \in Outcomes(ListingBodies(served, {"t3"}, Flairs)) : FetchRequest(o)
    \/ FetchFor
    \/ FetchAfter

\* ------------------------------------------------------ scrape_user_data
\* The limits followed for the functions without a page cap.
SmallLimits == 0 .. MaxLimit

\* `if response.status_code != 200: break` of the except branch.
SudGivesUp(r) == r.status # StatusOK

\* `if count >= limit: break`.
SudLimitReached(n, limit) == n >= limit

\* The record appended for a t3 child and for a t1 child.
UserItem(item) ==
    [id |-> item.id, type |-> IF item.kind = "t3" THEN "post" ELSE "comment"]

UserCall(limit) ==
    /\ pc = "idle"
    /\ fn' = "scrape_user_data"
    /\ args' = [NoArgs EXCEPT !.limit = limit]
    /\ params' = [limit |-> limit, after |-> None]
    /\ all_items' = <<>>
    /\ count' = 0
    /\ pc' = "sud_while"
    /\ UNCHANGED <<otherVars, netVars, frameVars, fspVars, result, exc>>

\* The while condition fails: the function returns all_items.
UserReturn ==
    /\ pc = "sud_while"
    /\ ~(count < args.limit)
    /\ Return(all_items)
    /\ UNCHANGED <<otherVars, fn, args, netVars, frameVars, fspVars, sudVars>>

\* One page request, its except branch, and the parse of the body. When
\* session.get raises, `response` keeps what it held before the request.
UserRequest(o) ==
    /\ pc = "sud_while"
    /\ count < args.limit
    /\ Get(params, o)
    /\ LET r == IF o.kind = "raise" THEN response ELSE Response(o)
           failed == o.kind = "raise" \/ RaisesForStatus(o.status)
       IN  /\ response' = r
           /\ IF failed /\ r.state = "unbound"
              THEN /\ Raise("UnboundLocalError")
                   /\ UNCHANGED <<json_calls, data, idx>>
              ELSE IF failed /\ SudGivesUp(r)
              THEN /\ Return(all_items)
                   /\ UNCHANGED <<json_calls, data, idx>>
              ELSE /\ json_calls' = json_calls + 1
                   /\ IF r.body.json # "listing"
                      THEN Return(all_items) /\ UNCHANGED <<data, idx>>
                      ELSE /\ data' = r.body
                           /\ IF r.body.children = <<>>
                              THEN Return(all_items) /\ idx' = idx
                              ELSE /\ pc' = "sud_for"
                                   /\ idx' = 1
                                   /\ UNCHANGED <<result, exc>>
    /\ UNCHANGED <<otherVars, fn, args, sleeps, fspVars, sudVars>>

\* One iteration of `for item in items`.
UserFor ==
    /\ pc = "sud_for"
    /\ LET item == data.children[idx]
           last == idx = Len(data.children)
       IN  /\ all_items' = IF item.kind \in {"t3", "t1"}
                           THEN Append(all_items, UserItem(item))
                           ELSE all_items
           /\ count' = count + 1
           /\ IF SudLimitReached(count + 1, args.limit) \/ last
              THEN pc' = "sud_after" /\ idx' = idx
              ELSE pc' = pc /\ idx' = idx + 1
    /\ UNCHANGED <<otherVars, fn, args, netVars, response, data, params, fspVars, result, exc>>

\* After the page: take the cursor, stop without one, else sleep and loop.
UserAfter ==
    /\ pc = "sud_after"
    /\ params' = [params EXCEPT !.after = data.after]
    /\ IF Falsy(data.after)
       THEN /\ Return(all_items)
            /\ UNCHANGED <<io, sleeps>>
       ELSE /\ sleeps' = sleeps + 1
            /\ io' = "sleep"
            /\ pc' = "sud_while"
            /\ UNCHANGED <<result, exc>>
    /\ UNCHANGED <<otherVars, fn, args, requests, served, feed, sent, outcome, json_calls, frameVars,
                   count, all_items, fspVars>>

ScrapeUserData ==
    \/ \E l \in SmallLimits : UserCall(l)
    \/ UserReturn
    \/ \E o \in Outcomes(ListingBodies(served, Kinds, {NoKey})) : UserRequest(o)
    \/ UserFor
    \/ UserAfter

\* ---------------------------------- handle_search (search_reddit, search_subreddit)
\* The except branch comparing the wrong way round.
HsGivesUpInverted(r) == r.status = StatusOK

\* `if response.status_code != 200: return []` of the except branch.
HsGivesUp(r) == r.status # StatusOK

\* The results without the page's first child.
SearchResultsTail(children) == [i \in 1 .. Len(children) - 1 |-> [id |-> children[i + 1].id]]

\* results: one record per child of the page, in order.
SearchResults(children) == [i \in 1 .. Len(children) |-> [id |-> children[i].id]]

SearchCall(f, limit) ==
    /\ pc = "idle"
    /\ fn' = f
    /\ args' = [NoArgs EXCEPT !.limit = limit]
    /\ pc' = "hs_try"
    /\ UNCHANGED <<otherVars, netVars, frameVars, fspVars, sudVars, result, exc>>

SearchRequest(o) ==
    /\ pc = "hs_try"
    /\ Get([limit |-> args.limit, after |-> None], o)
    /\ LET r == IF o.kind = "raise" THEN response ELSE Response(o)
           failed == o.kind = "raise" \/ RaisesForStatus(o.status)
       IN  /\ response' = r
           /\ IF failed /\ r.state = "unbound"
              THEN Raise("UnboundLocalError") /\ UNCHANGED <<json_calls, data>>
              ELSE IF failed /\ HsGivesUp(r)
              THEN Return(<<>>) /\ UNCHANGED <<json_calls, data>>
              ELSE /\ json_calls' = json_calls + 1
                   /\ IF r.body.json = "invalid"
                      THEN Raise("JSONDecodeError") /\ data' = data
                      ELSE IF r.body.json # "listing"
                      THEN Raise("KeyError") /\ data' = data
                      ELSE Return(SearchResults(r.body.children)) /\ data' = r.body
    /\ UNCHANGED <<otherVars, fn, args, sleeps, idx, fspVars, sudVars>>

HandleSearch ==
    \/ \E f \in {"search_reddit", "search_subreddit"}, l \in SmallLimits : SearchCall(f, l)
    \/ \E o \in Outcomes(ListingBodies(0, {"t3"}, {NoKey})) : SearchRequest(o)

\* ---------------------------------------------------- scrape_post_details
\* `if response.status_code != 200: return None` of the except branch.
SpdGivesUp(r) == r.status # StatusOK

\* ------------------------------------------------------- _extract_comments
\* A test that takes every mapping for a comment, whatever its kind.
IsCommentAnyDict(c) == c.kind # NotDict

\* isinstance(comment, dict) and comment.get("kind") == "t1".
IsComment(c) == c.kind # NotDict /\ c.kind = "t1"

\* A test that expects the replies to be a plain list.
RepliesIsList(r) == r.type = "list"

\* isinstance(replies, dict).
RepliesIsDict(r) == r.type = "dict"

\* extracted_comments for a raw listing; ExtractedComment is the node built
\* for one t1 element.
RECURSIVE ExtractComments(_), ExtractedComment(_)
ExtractComments(cs) ==
    IF cs = <<>>
    THEN <<>>
    ELSE IF IsComment(Head(cs))
         THEN <<ExtractedComment(Head(cs))>> \o ExtractComments(Tail(cs))
         ELSE ExtractComments(Tail(cs))
ExtractedComment(c) ==
    [author |-> c.author, body |-> c.body, score |-> c.score,
     replies |-> IF RepliesIsDict(c.replies)
                 THEN ExtractComments(c.replies.children)
                 ELSE <<>>]

\* A direct call of _extract_comments.
ExtractCall(cs) ==
    /\ pc = "idle"
    /\ fn' = "_extract_comments"
    /\ comments' = cs
    /\ Return(ExtractComments(cs))
    /\ UNCHANGED <<args, netVars, frameVars, fspVars, sudVars, retryVars, laterVars>>

\* ------------------------------------------------------ _convert_timestamp
\* A test that takes only None for a missing timestamp.
TsIsNone(t) == t.type = "NoneType"

\* `not unix_timestamp`: None, the empty string and 0 are falsy.
TsFalsy(t) == t.type = "NoneType" \/ t.v = 0

\* The civil date <<year, month, day>> of a day number counted from 1970-01-01.
CivilFromDays(days) ==
    LET z == days + 719468
        era == z \div 146097
        doe == z - era * 146097
        yoe == (doe - doe \div 1460 + doe \div 36524 - doe \div 146096) \div 365
        doy == doe - (365 * yoe + yoe \div 4 - yoe \div 100)
        mp == (5 * doy + 2) \div 153
        d == doy - (153 * mp + 2) \div 5 + 1
        m == IF mp < 10 THEN mp + 3 ELSE mp - 9
    IN  <<yoe + era * 400 + (IF m <= 2 THEN 1 ELSE 0), m, d>>

\* A number written with n decimal digits, as a string of characters.
Digit(n) == <<"0", "1", "2", "3", "4", "5", "6", "7", "8", "9">>[n + 1]
RECURSIVE Digits(_, _)
Digits(x, n) == IF n = 0 THEN <<>> ELSE Digits(x \div 10, n - 1) \o <<Digit(x % 10)>>

\* datetime.fromtimestamp(t).strftime("%Y-%m-%d %H:%M:%S") in the zone.
Strftime(t, zone) ==
    LET local == t + zone
        date == CivilFromDays(local \div 86400)
        sod == local % 86400
    IN  Digits(date[1], 4) \o <<"-">> \o Digits(date[2], 2) \o <<"-">> \o Digits(date[3], 2)
        \o <<" ">> \o Digits(sod \div 3600, 2) \o <<":">> \o Digits((sod % 3600) \div 60, 2)
        \o <<":">> \o Digits(sod % 60, 2)

\* The string _convert_timestamp returns ("" is the empty sequence).
ConvertTimestamp(t, zone) == IF TsFalsy(t) THEN <<>> ELSE Strftime(t.v, zone)

\* datetime.fromtimestamp takes a number only.
ConvertRaises(t) == ~TsFalsy(t) /\ t.type # "int"

\* A direct call of _convert_timestamp.
ConvertCall(t, zone) ==
    /\ pc = "idle"
    /\ fn' = "_convert_timestamp"
    /\ unix_timestamp' = t
    /\ tz' = zone
    /\ IF ConvertRaises(t) THEN Raise("TypeError") ELSE Return(ConvertTimestamp(t, zone))
    /\ UNCHANGED <<args, netVars, frameVars, fspVars, sudVars, retryVars, comments, recVars, exVars, puterVars,
                   sheetVars, batchVars>>

\* The record scrape_user_data builds for a t3 or t1 item whose data holds
\* created_utc, or does not (has_key false).
UserItemCall(kind, has_key, t, zone) ==
    /\ pc = "idle"
    /\ fn' = "scrape_user_data item"
    /\ tz' = zone
    /\ LET created_utc == IF has_key THEN t ELSE EmptyString
       IN  /\ unix_timestamp' = created_utc
           /\ IF ConvertRaises(created_utc)
              THEN Raise("TypeError")
              ELSE Return([type |-> IF kind = "t3" THEN "post" ELSE "comment",
                           has_key |-> has_key,
                           created_utc |-> created_utc,
                           created_date |-> ConvertTimestamp(created_utc, zone)])
    /\ UNCHANGED <<args, netVars, frameVars, fspVars, sudVars, retryVars, comments, recVars, exVars, puterVars,
                   sheetVars, batchVars>>

\* ------------------------------------- _extract_comments, one step at a time
\* The call of _extract_comments on a listing: its for loop is at element i
\* and has appended out.
Frame(cs) == [cs |-> cs, i |-> 1, out |-> <<>>]

\* The extracted_comment built for a t1 element, with its replies.
Extracted1(c, replies) ==
    [author |-> c.author, body |-> c.body, score |-> c.score, replies |-> replies]

\* The outermost call.
RecCall(cs) ==
    /\ pc = "idle"
    /\ fn' = "_extract_comments"
    /\ comments' = cs
    /\ stack' = <<Frame(cs)>>
    /\ max_depth' = 1
    /\ pc' = "ec_for"
    /\ UNCHANGED <<args, netVars, frameVars, fspVars, sudVars, retryVars, result, exc, tsVars, exVars, puterVars,
                   sheetVars, batchVars>>

\* A loop that stays at the element it is at.
SameElement(i) == i

\* `for comment in comments` moves to the next element.
NextElement(i) == i + 1

\* An element that is not a t1 mapping: the loop goes on.
RecSkip ==
    /\ pc = "ec_for"
    /\ LET d == Len(stack) top == stack[d]
       IN  /\ top.i <= Len(top.cs)
           /\ ~IsComment(top.cs[top.i])
           /\ stack' = [stack EXCEPT ![d].i = NextElement(top.i)]
    /\ UNCHANGED <<pc, fn, args, netVars, frameVars, fspVars, sudVars, retryVars, result, exc,
                   comments, max_depth, tsVars, exVars, puterVars,
                   sheetVars, batchVars>>

\* A t1 element whose replies are not a mapping: appended with replies [].
RecLeaf ==
    /\ pc = "ec_for"
    /\ LET d == Len(stack) top == stack[d]
       IN  /\ top.i <= Len(top.cs)
           /\ IsComment(top.cs[top.i])
           /\ ~RepliesIsDict(top.cs[top.i].replies)
           /\ stack' = [stack EXCEPT ![d].i = NextElement(top.i),
                                     ![d].out = Append(top.out, Extracted1(top.cs[top.i], <<>>))]
    /\ UNCHANGED <<pc, fn, args, netVars, frameVars, fspVars, sudVars, retryVars, result, exc,
                   comments, max_depth, tsVars, exVars, puterVars,
                   sheetVars, batchVars>>

\* A t1 element whose replies are a mapping: the recursive call.
RecDescend ==
    /\ pc = "ec_for"
    /\ LET d == Len(stack) top == stack[d]
       IN  /\ top.i <= Len(top.cs)
           /\ IsComment(top.cs[top.i])
           /\ RepliesIsDict(top.cs[top.i].replies)
           /\ stack' = Append(stack, Frame(top.cs[top.i].replies.children))
           /\ max_depth' = IF d + 1 > max_depth THEN d + 1 ELSE max_depth
    /\ UNCHANGED <<pc, fn, args, netVars, frameVars, fspVars, sudVars, retryVars, result, exc,
                   comments, tsVars, exVars, puterVars, sheetVars, batchVars>>

\* The loop of the innermost call is over: it returns its list, which the
\* caller stores as the replies of the element it is at and appends.
RecReturn ==
    /\ pc = "ec_for"
    /\ LET d == Len(stack) top == stack[d]
       IN  /\ top.i > Len(top.cs)
           /\ IF d = 1
              THEN /\ stack' = <<>>
                   /\ Return(top.out)
              ELSE LET caller == stack[d - 1]
                   IN  /\ stack' = [SubSeq(stack, 1, d - 1) EXCEPT
                                       ![d - 1].i = NextElement(caller.i),
                                       ![d - 1].out = Append(caller.out,
                                           Extracted1(caller.cs[caller.i], top.out))]
                       /\ UNCHANGED <<pc, result, exc>>
    /\ UNCHANGED <<fn, args, netVars, frameVars, fspVars, sudVars, retryVars, comments, max_depth,
                   tsVars, exVars, puterVars, sheetVars, batchVars>>

RecStep == RecSkip \/ RecLeaf \/ RecDescend \/ RecReturn

\* ---------------------------------------------------- scrape_post_details
\* A test that lets a list of fewer than two elements through.
NotListAtAll(b) == b.json \notin {"detail", "malformed", "short"}

\* `not isinstance(post_data, list) or len(post_data) < 2`.
NotListOfTwo(b) == b.json \notin {"detail", "malformed"}

\* The mapping returned for a body of two well-formed listings.
PostDetails(b) ==
    [title |-> b.post.title,
     body |-> IF b.post.selftext = NoKey THEN "" ELSE b.post.selftext,
     comments |-> ExtractComments(b.children)]

DetailCall ==
    /\ pc = "idle"
    /\ fn' = "scrape_post_details"
    /\ args' = NoArgs
    /\ pc' = "spd_try"
    /\ UNCHANGED <<otherVars, netVars, frameVars, fspVars, sudVars, result, exc>>

DetailRequest(o) ==
    /\ pc = "spd_try"
    /\ Get(NoSent, o)
    /\ LET r == IF o.kind = "raise" THEN response ELSE Response(o)
           failed == o.kind = "raise" \/ RaisesForStatus(o.status)
       IN  /\ response' = r
           /\ IF failed /\ r.state = "unbound"
              THEN Raise("UnboundLocalError") /\ UNCHANGED <<json_calls, data>>
              ELSE IF failed /\ SpdGivesUp(r)
              THEN Return(None) /\ UNCHANGED <<json_calls, data>>
              ELSE /\ json_calls' = json_calls + 1
                   /\ IF r.body.json = "invalid"
                      THEN Raise("JSONDecodeError") /\ data' = data
                      ELSE IF NotListOfTwo(r.body)
                      THEN Return(None) /\ data' = r.body
                      ELSE IF r.body.json # "detail"
                      THEN Raise("IndexError") /\ data' = r.body
                      ELSE Return(PostDetails(r.body)) /\ data' = r.body
    /\ UNCHANGED <<otherVars, fn, args, sleeps, idx, fspVars, sudVars>>

ScrapePostDetails ==
    \/ DetailCall
    \/ \E o \in Outcomes(DetailBodies(1)) : DetailRequest(o)

\* How a call of scrape_post_details ends for its caller, given what its
\* session.get did: with a mapping, with None, or with an exception.
DetailEnds(o) ==
    IF o.kind = "raise"
    THEN "raise"
    ELSE IF RaisesForStatus(o.status) /\ SpdGivesUp(Response(o))
    THEN "None"
    ELSE IF o.body.json = "invalid"
    THEN "raise"
    ELSE IF NotListOfTwo(o.body)
    THEN "None"
    ELSE IF o.body.json # "detail"
    THEN "raise"
    ELSE "mapping"

\* --------------------------------------- example.py: scrape_subreddit_data
\* A run that starts from an empty list whatever the file holds.
LoadNothing(f) == <<>>

\* json.load of the file; [] on FileNotFoundError and JSONDecodeError.
LoadExisting(f) == IF f.state = "list" THEN f.records ELSE <<>>

\* save_to_json: the file is opened for writing and the whole list dumped.
SaveToJson(d) == ListFile(d)

\* The call, up to the for loop: fetch_subreddit_posts returns n posts or
\* raises (the outer except ends the run), then the file f is loaded.
ExampleCall(n, f, fetch_raises) ==
    /\ pc = "idle"
    /\ fn' = "scrape_subreddit_data"
    /\ file' = f
    /\ file0' = f
    /\ IF fetch_raises
       THEN /\ Return(None)
            /\ UNCHANGED <<posts, ex_i, existing_data>>
       ELSE /\ posts' = [k \in 1 .. n |-> k]
            /\ existing_data' = LoadExisting(f)
            /\ ex_i' = 1
            /\ IF n = 0 THEN Return(None) ELSE pc' = "ex_for" /\ UNCHANGED <<result, exc>>
    /\ UNCHANGED <<args, netVars, frameVars, fspVars, sudVars, retryVars, comments, recVars,
                   tsVars, fetches, writes, sheetVars, batchVars, puterVars>>

\* One iteration of the for loop: the detail fetch of the post and, when it
\* gave a mapping, the append and the rewrite of the file. An exception of
\* scrape_post_details reaches the outer except, which ends the run.
ExampleFor(o) ==
    /\ pc = "ex_for"
    /\ LET post == posts[ex_i]
           end == DetailEnds(o)
           last == ex_i = Len(posts)
       IN  /\ fetches' = Append(fetches, [post |-> post, end |-> end])
           /\ IF end = "raise"
              THEN /\ Return(None)
                   /\ UNCHANGED <<file, existing_data, writes, ex_i>>
              ELSE /\ IF end = "mapping"
                      THEN /\ existing_data' = Append(existing_data,
                                  OutRecord(post, PostDetails(o.body).body))
                           /\ file' = SaveToJson(existing_data')
                           /\ writes' = writes + 1
                      ELSE UNCHANGED <<file, existing_data, writes>>
                   /\ ex_i' = ex_i + 1
                   /\ IF last THEN Return(None) ELSE UNCHANGED <<pc, result, exc>>
    /\ UNCHANGED <<fn, args, netVars, frameVars, fspVars, sudVars, retryVars, comments, recVars,
                   tsVars, file0, posts, sheetVars, batchVars, puterVars>>

\* ------------------------------------------------ google_sheets_utils.py
\* Cell values are strings of characters; "" is the empty sequence.
UpperCase ==
    <<"A", "B", "C", "D", "E", "F", "G", "H", "I", "J", "K", "L", "M",
      "N", "O", "P", "Q", "R", "S", "T", "U", "V", "W", "X", "Y", "Z">>
LowerCase ==
    <<"a", "b", "c", "d", "e", "f", "g", "h", "i", "j", "k", "l", "m",
      "n", "o", "p", "q", "r", "s", "t", "u", "v", "w", "x", "y", "z">>

\* str.lower().
LowerChar(c) ==
    IF \E i \in DOMAIN UpperCase : UpperCase[i] = c
    THEN LowerCase[CHOOSE i \in DOMAIN UpperCase : UpperCase[i] = c]
    ELSE c
Lower(str) == [i \in DOMAIN str |-> LowerChar(str[i])]

\* str.strip(): leading and trailing blanks removed.
RECURSIVE LStrip(_), RStrip(_)
LStrip(str) == IF str # <<>> /\ Head(str) = " " THEN LStrip(Tail(str)) ELSE str
RStrip(str) ==
    IF str # <<>> /\ str[Len(str)] = " " THEN RStrip(SubSeq(str, 1, Len(str) - 1)) ELSE str
Strip(str) == RStrip(LStrip(str))

\* `x.strip().lower() if x else ""`.
Normalize(str) == IF str = <<>> THEN <<>> ELSE Lower(Strip(str))

\* The header cells and cell values the code writes.
HTitle == <<"T", "i", "t", "l", "e">>
HAuthor == <<"A", "u", "t", "h", "o", "r">>
HCreatedUTC == <<"C", "r", "e", "a", "t", "e", "d", "U", "T", "C">>
HBody == <<"B", "o", "d", "y">>
HLinkFlairText == <<"L", "i", "n", "k", "F", "l", "a", "i", "r", "T", "e", "x", "t">>
HArticleContent ==
    <<"A", "r", "t", "i", "c", "l", "e", "_", "C", "o", "n", "t", "e", "n", "t">>
Completed == <<"C", "o", "m", "p", "l", "e", "t", "e", "d">>
RedditHeaders == <<HTitle, HAuthor, HCreatedUTC, HBody, HLinkFlairText>>

\* A sheet is what get_all_values() gives: its rows, each a list of cells,
\* all of the width of the widest. WithCell is update_cell(r, c, v).
Widen(row, w) == [c \in 1 .. w |-> IF c <= Len(row) THEN row[c] ELSE <<>>]
Width(sh) == IF sh = <<>> THEN 0 ELSE SetMax({ Len(sh[r]) : r \in DOMAIN sh })
Grid(sh) == [r \in DOMAIN sh |-> Widen(sh[r], Width(sh))]
AppendRow(sh, row) == Grid(Append(sh, row))
WithCell(sh, r, c, v) ==
    LET w == IF c > Width(sh) THEN c ELSE Width(sh)
    IN  [i \in DOMAIN sh |-> [j \in 1 .. w |->
            IF i = r /\ j = c THEN v ELSE IF j <= Len(sh[i]) THEN sh[i][j] ELSE <<>>]]

\* x in row, and row.index(x).
InRow(x, row) == \E c \in DOMAIN row : row[c] = x
IndexOf(x, row) == CHOOSE c \in DOMAIN row : row[c] = x /\ \A d \in 1 .. c - 1 : row[d] # x

\* get_worksheet for the Reddit data sheet: an empty sheet gets the headers;
\* a sheet whose first row lacks "Title" is cleared, given the headers and
\* all its old rows again.
RECURSIVE AppendRows(_, _)
AppendRows(sh, rows) ==
    IF rows = <<>> THEN sh ELSE AppendRows(AppendRow(sh, Head(rows)), Tail(rows))
GetWorksheet(sh) ==
    IF sh = <<>>
    THEN <<RedditHeaders>>
    ELSE IF ~InRow(HTitle, sh[1])
    THEN AppendRows(<<RedditHeaders>>, sh)
    ELSE sh

\* A post passed to add_to_sheet, and the row made of it.
SheetPost(title, author) == [title |-> title, author |-> author]
RowData(post) == <<post.title, post.author, <<"1">>, <<"x">>, <<>>>>

\* A match that compares the cells as they are.
RowMatchesRaw(row, ti, ai, title, author) == row[ti] = title /\ row[ai] = author

\* The row holds the same title and author after normalization.
RowMatches(row, ti, ai, title, author) ==
    /\ Normalize(row[ti]) = Normalize(title)
    /\ Normalize(row[ai]) = Normalize(author)

\* is_duplicate_post on the sheet get_worksheet returned.
IsDuplicatePost(sh, title, author) ==
    IF Len(sh) <= 1
    THEN FALSE
    ELSE LET headers == sh[1]
             named == InRow(HTitle, headers) /\ InRow(HAuthor, headers)
             ti == IF named THEN IndexOf(HTitle, headers) ELSE 1
             ai == IF named THEN IndexOf(HAuthor, headers) ELSE 2
         IN  \E r \in 2 .. Len(sh) :
                /\ Len(sh[r]) >= ti /\ Len(sh[r]) >= ai
                /\ RowMatches(sh[r], ti, ai, title, author)

\* What a call on the sheet returns: None, a bool, a post or a count.
NoneRet == [type |-> "NoneType"]
BoolRet(b) == [type |-> "bool", ok |-> b]
PostRet(title, r) == [type |-> "post", title |-> title, row |-> r]
IntRet(n) == [type |-> "int", n |-> n]

\* add_to_sheet with skip_duplicate_check False on the Reddit data sheet:
\* the sheet it leaves and what it returns.
AddToSheet(sh, post) ==
    LET checked == GetWorksheet(sh)
    IN  IF IsDuplicatePost(checked, post.title, post.author)
        THEN [sheet |-> checked, ok |-> FALSE]
        ELSE [sheet |-> AppendRow(GetWorksheet(checked), RowData(post)), ok |-> TRUE]

\* Header names as the lookups compare them, in lower case.
LStatus == <<"s", "t", "a", "t", "u", "s">>
LArticle == <<"a", "r", "t", "i", "c", "l", "e">>
LContent == <<"c", "o", "n", "t", "e", "n", "t">>

\* The first, and the last, column whose header is in the set after lower().
FirstColumn(headers, names) ==
    LET cs == { c \in DOMAIN headers : Lower(headers[c]) \in names }
    IN  IF cs = {} THEN 0 ELSE CHOOSE c \in cs : \A d \in cs : c <= d
LastColumn(headers, names) ==
    LET cs == { c \in DOMAIN headers : Lower(headers[c]) \in names }
    IN  IF cs = {} THEN 0 ELSE SetMax(cs)

\* get_first_unprocessed_post: without a Status column the first data row;
\* with one, the first row whose status is missing, empty or not "completed".
GetFirstUnprocessedPost(sh) ==
    IF Len(sh) <= 1
    THEN NoneRet
    ELSE LET headers == sh[1]
             si == FirstColumn(headers, {LStatus})
             open == IF si = 0
                     THEN {2}
                     ELSE { r \in 2 .. Len(sh) :
                              \/ si > Len(sh[r])
                              \/ sh[r][si] = <<>>
                              \/ Lower(sh[r][si]) # Lower(Completed) }
         IN  IF open = {}
             THEN NoneRet
             ELSE LET r == CHOOSE x \in open : \A y \in open : x <= y
                      tc == LastColumn(headers, {Lower(HTitle)})
                  IN  IF sh[r] = <<>>
                      THEN NoneRet
                      ELSE PostRet(IF tc # 0 /\ tc <= Len(sh[r]) THEN sh[r][tc] ELSE <<>>, r)

\* mark_post_as_done: the sheet it leaves and what it returns.
MarkPostAsDone(sh, post_title, article_content, status) ==
    IF Len(sh) <= 1
    THEN [sheet |-> sh, ok |-> FALSE]
    ELSE LET headers == sh[1]
             ti == LastColumn(headers, {Lower(HTitle)})
             si == LastColumn(headers, {LStatus})
             ari == LastColumn(headers, {LArticle, LContent, Lower(HArticleContent)})
             found == { r \in 2 .. Len(sh) : ti <= Len(sh[r]) /\ sh[r][ti] = post_title }
         IN  IF ti = 0 \/ found = {}
             THEN [sheet |-> sh, ok |-> FALSE]
             ELSE LET r == CHOOSE x \in found : \A y \in found : x <= y
                      sh1 == IF si # 0 THEN WithCell(sh, r, si, status) ELSE sh
                      sh2 == IF ari # 0
                             THEN WithCell(sh1, r, ari, article_content)
                             ELSE WithCell(WithCell(sh1, 1, Len(headers) + 1, HArticleContent),
                                           r, Len(headers) + 1, article_content)
                  IN  [sheet |-> sh2, ok |-> TRUE]

\* The titles and authors of the posts followed.
SheetTitles == {<<"a">>, <<" ", "A">>, <<"b">>}
SheetAuthors == {<<"u">>, <<"U", " ">>, <<"v">>}
SheetPosts == { SheetPost(t, a) : t \in SheetTitles, a \in SheetAuthors }

\* A call of add_to_sheet(post).
AddCall(post) ==
    /\ pc = "idle"
    /\ Len(sheet) <= MaxRows
    /\ fn' = "add_to_sheet"
    /\ sh_post' = post
    /\ sheet_before' = sheet
    /\ sheet' = AddToSheet(sheet, post).sheet
    /\ result' = BoolRet(AddToSheet(sheet, post).ok)
    /\ UNCHANGED <<pc, exc, args, netVars, frameVars, fspVars, sudVars, retryVars, comments,
                   recVars, tsVars, exVars, puterVars, done_rows, batchVars>>

\* A call of get_worksheet for the Reddit data sheet.
GetWorksheetCall ==
    /\ pc = "idle"
    /\ fn' = "get_worksheet"
    /\ sheet_before' = sheet
    /\ sheet' = GetWorksheet(sheet)
    /\ result' = NoneRet
    /\ UNCHANGED <<pc, exc, args, netVars, frameVars, fspVars, sudVars, retryVars, comments,
                   recVars, tsVars, exVars, puterVars, sh_post, done_rows, batchVars>>

\* A call of get_first_unprocessed_post on the Reddit data sheet.
GetFirstCall ==
    /\ pc = "idle"
    /\ fn' = "get_first_unprocessed_post"
    /\ sheet_before' = sheet
    /\ result' = GetFirstUnprocessedPost(sheet)
    /\ UNCHANGED <<pc, exc, args, netVars, frameVars, fspVars, sudVars, retryVars, comments,
                   recVars, tsVars, exVars, puterVars, sheet, sh_post, done_rows, batchVars>>

\* mark_post_as_done for the post get_first_unprocessed_post just returned.
MarkCall ==
    /\ pc = "idle"
    /\ fn = "get_first_unprocessed_post"
    /\ result.type = "post"
    /\ LET m == MarkPostAsDone(sheet, result.title, <<"z">>, Completed)
       IN  /\ sheet' = m.sheet
           /\ result' = BoolRet(m.ok)
           /\ done_rows' = IF m.ok THEN done_rows \cup {result.row} ELSE done_rows
    /\ fn' = "mark_post_as_done"
    /\ sheet_before' = sheet
    /\ UNCHANGED <<pc, exc, args, netVars, frameVars, fspVars, sudVars, retryVars, comments,
                   recVars, tsVars, exVars, puterVars, sh_post, batchVars>>

\* `delay > 0 and post_data != post_data_list[-1]`.
SleepsAfter(post, list, d) == d > 0 /\ post # list[Len(list)]

\* batch_add_to_sheets(post_data_list, delay=d), up to its for loop.
BatchCall(list, d) ==
    /\ pc = "idle"
    /\ fn' = "batch_add_to_sheets"
    /\ batch' = list
    /\ delay' = d
    /\ b_i' = 1
    /\ successful_posts' = 0
    /\ naps' = 0
    /\ sheet_before' = sheet
    /\ IF list = <<>> THEN Return(IntRet(0)) ELSE pc' = "batch_for" /\ UNCHANGED <<result, exc>>
    /\ UNCHANGED <<args, netVars, frameVars, fspVars, sudVars, retryVars, comments,
                   recVars, tsVars, exVars, puterVars, sheet, sh_post, done_rows>>

\* One iteration: add_to_sheet, the count, and the sleep.
BatchFor ==
    /\ pc = "batch_for"
    /\ LET post == batch[b_i]
           added == AddToSheet(sheet, post)
           n == IF added.ok THEN successful_posts + 1 ELSE successful_posts
       IN  /\ sheet' = added.sheet
           /\ sh_post' = post
           /\ successful_posts' = n
           /\ naps' = IF SleepsAfter(post, batch, delay) THEN naps + 1 ELSE naps
           /\ IF b_i = Len(batch)
              THEN Return(IntRet(n)) /\ b_i' = b_i
              ELSE b_i' = b_i + 1 /\ UNCHANGED <<pc, result, exc>>
    /\ UNCHANGED <<fn, args, netVars, frameVars, fspVars, sudVars, retryVars, comments,
                   recVars, tsVars, exVars, puterVars, sheet_before, done_rows, batch, delay>>

\* ------------------------------------------ puter_api.ChatCompletion.create
\* What requests.post does in _send_request: it raises, or gives a status and
\* a body. A body is not JSON, or JSON of one of these shapes: no "result"
\* key; result.message.content a list of text blocks, a string, or null.
BodyShapes == {"notjson", "other", "blocks", "string", "null"}
PostOutcomes ==
    {[kind |-> "raise", status |-> 0, body |-> "other"],
     [kind |-> "response", status |-> Unauthorized, body |-> "other"]}
    \cup { [kind |-> "response", status |-> StatusOK, body |-> b] : b \in BodyShapes }

\* _send_request with expect_json: the parsed body of a 200, else an
\* {"error", "status"} mapping; it never raises.
SendRequest(o) ==
    IF o.kind = "raise" THEN "error"
    ELSE IF o.status # StatusOK THEN "error"
    ELSE IF o.body = "notjson" THEN "error"
    ELSE o.body

\* PuterChatCompletion.create: PuterAI refuses an empty key with ValueError,
\* otherwise what _send_request returns.
PuterCreate(key, o) == IF key = "" THEN "ValueError" ELSE SendRequest(o)

\* resp['result']['message']['content'][0]['text'] and
\* resp['result']['message']['content']: the value returned, or the
\* exception raised.
ClaudeText(resp) ==
    CASE resp = "ValueError" -> [ok |-> FALSE, value |-> "ValueError"]
      [] resp \in {"error", "other"} -> [ok |-> FALSE, value |-> "KeyError"]
      [] resp \in {"string", "null"} -> [ok |-> FALSE, value |-> "TypeError"]
      [] resp = "blocks" -> [ok |-> TRUE, value |-> "str"]
GptText(resp) ==
    CASE resp = "ValueError" -> [ok |-> FALSE, value |-> "ValueError"]
      [] resp \in {"error", "other"} -> [ok |-> FALSE, value |-> "KeyError"]
      [] resp = "string" -> [ok |-> TRUE, value |-> "str"]
      [] resp = "null" -> [ok |-> TRUE, value |-> "NoneType"]
      [] resp = "blocks" -> [ok |-> TRUE, value |-> "list"]

\* What create returns: the value of a type, or the {"error": ...} mapping.
ValueRet(type) == [type |-> type]
ErrorMapping == [type |-> "dict"]

\* The key lists followed: PUTER_API_KEY as a list, or one key made a list.
RECURSIVE KeyLists(_)
KeyLists(n) ==
    IF n = 0 THEN {<<>>}
    ELSE KeyLists(n - 1) \cup { Append(l, k) : l \in { x \in KeyLists(n - 1) : Len(x) = n - 1 },
                                             k \in {"key", ""} }

\* create(messages), up to the first loop.
PuterCall(keys) ==
    /\ pc = "idle"
    /\ fn' = "ChatCompletion.create"
    /\ api_keys_list' = keys
    /\ tried' = <<>>
    /\ last_error' = "None"
    /\ p_i' = 1
    /\ IF keys = <<>>
       THEN Return(ErrorMapping)
       ELSE pc' = "claude_for" /\ UNCHANGED <<result, exc>>
    /\ UNCHANGED <<args, netVars, frameVars, fspVars, sudVars, retryVars, comments,
                   recVars, tsVars, exVars, sheetVars, batchVars>>

\* One iteration of the loop over the keys with the Claude model.
ClaudeAttempt(o) ==
    /\ pc = "claude_for"
    /\ LET resp == PuterCreate(api_keys_list[p_i], o)
           got == ClaudeText(resp)
       IN  /\ tried' = Append(tried, [model |-> "claude", key |-> p_i, response |-> resp])
           /\ IF got.ok
              THEN Return(ValueRet(got.value)) /\ UNCHANGED <<last_error, p_i>>
              ELSE /\ last_error' = got.value
                   /\ IF p_i = Len(api_keys_list)
                      THEN pc' = "gpt_for" /\ p_i' = 1
                      ELSE pc' = pc /\ p_i' = p_i + 1
                   /\ UNCHANGED <<result, exc>>
    /\ UNCHANGED <<fn, args, netVars, frameVars, fspVars, sudVars, retryVars, comments,
                   recVars, tsVars, exVars, sheetVars, batchVars, api_keys_list>>

\* One iteration of the loop over the keys with GPT-4o, and the return after it.
GptAttempt(o) ==
    /\ pc = "gpt_for"
    /\ LET resp == PuterCreate(api_keys_list[p_i], o)
           got == GptText(resp)
       IN  /\ tried' = Append(tried, [model |-> "gpt-4o", key |-> p_i, response |-> resp])
           /\ IF got.ok
              THEN Return(ValueRet(got.value)) /\ UNCHANGED <<last_error, p_i>>
              ELSE /\ last_error' = got.value
                   /\ IF p_i = Len(api_keys_list)
                      THEN Return(ErrorMapping) /\ p_i' = p_i
                      ELSE p_i' = p_i + 1 /\ UNCHANGED <<pc, result, exc>>
    /\ UNCHANGED <<fn, args, netVars, frameVars, fspVars, sudVars, retryVars, comments,
                   recVars, tsVars, exVars, sheetVars, batchVars, api_keys_list>>

\* --------------------------------------------------------- retrying transport
\* status_forcelist of the session's Retry.
Forcelist == {429, 500, 502, 503, 504}

\* One attempt that ends in a connection or read error (status 0).
AttemptError == [kind |-> "error", status |-> 0, body |-> BadJsonBody]

\* What the server may do at one attempt.
AttemptOutcomes(bodies) ==
    {AttemptError}
    \cup { ResponseOutcome(s, NoDataBody) : s \in Forcelist }
    \cup (Outcomes(bodies) \ {RaiseOutcome})

\* A policy that retries forcelisted statuses only.
RetryableStatusOnly(a) == a.kind = "response" /\ a.status \in Forcelist

\* Retry(total=5, status_forcelist=[...]) retries an attempt that ended in a
\* connection or read error, or in a forcelisted status.
Retryable(a) == a.kind = "error" \/ a.status \in Forcelist

\* A budget that counts attempts instead of retries.
RetryExhaustedEarly(total) == total <= 0

\* The budget is spent once the decremented total is negative.
RetryExhausted(total) == total < 0

\* One attempt of the session.get in progress. A retryable attempt costs one
\* of the total; with the total spent the session.get raises. Anything else
\* is handed to the caller as it is.
RetryAttempt(a) ==
    /\ delivered = Pending
    /\ attempts' = attempts + 1
    /\ seen' = seen \cup {a.status}
    /\ IF Retryable(a)
       THEN /\ retry_total' = retry_total - 1
            /\ delivered' = IF RetryExhausted(retry_total - 1) THEN RaiseOutcome ELSE Pending
       ELSE /\ retry_total' = retry_total
            /\ delivered' = IF a.kind = "error" THEN RaiseOutcome ELSE a
    /\ UNCHANGED <<pc, fn, args, netVars, frameVars, fspVars, sudVars, result, exc, comments,
                   laterVars>>

SearchAttempt(a) == pc = "hs_try" /\ RetryAttempt(a)
DetailAttempt(a) == pc = "spd_try" /\ RetryAttempt(a)

\* The session.get has ended: the calling function goes on with what it gave.
SearchDeliver == delivered # Pending /\ SearchRequest(delivered)
DetailDeliver == delivered # Pending /\ DetailRequest(delivered)

\* ------------------------------------------------------------ specification
Next ==
    \/ FetchSubredditPosts
    \/ ScrapeUserData
    \/ HandleSearch
    \/ ScrapePostDetails

\* Calls of _extract_comments and of scrape_post_details over every raw
\* comment listing of at most MaxNodes nodes.
CommentListings == RawComments(MaxNodes)
DetailOutcomes == Outcomes(DetailBodies(MaxNodes))

ExtractAny == pc = "idle" /\ \E cs \in CommentListings : ExtractCall(cs)
DetailAny == pc = "spd_try" /\ \E o \in DetailOutcomes : DetailRequest(o)

NextComments ==
    \/ ExtractAny
    \/ DetailCall
    \/ DetailAny


\* ------------------------------------------------------------------ claims
ListingFns == {"fetch_subreddit_posts", "scrape_user_data"}
SearchFns == {"search_reddit", "search_subreddit"}

\* The last page request failed: session.get raised, or raise_for_status did.
RequestFailed ==
    \/ outcome = "raise"
    \/ outcome = "response" /\ RaisesForStatus(response.status)

\* No record occurs twice in a sequence of records.
NoDuplicates(seq) ==
    \A i, j \in 1 .. Len(seq) : seq[i].id = seq[j].id => i = j

\* C1: the accumulators of fetch_subreddit_posts and scrape_user_data never
\* hold more than `limit` records at any point of the loop, and the returned
\* sequence has at most `limit` records.
C1_AccumulatorWithinLimit ==
    fn \in ListingFns =>
        /\ Len(all_posts) <= args.limit
        /\ Len(all_items) <= args.limit
        /\ pc = "done" => Len(result) <= args.limit

\* C1's case: the bound was reached in the middle of a page and the call returned.
C1_StoppedMidPage ==
    /\ fn = "fetch_subreddit_posts"
    /\ pc = "done"
    /\ args.limit > 0
    /\ Len(result) = args.limit
    /\ idx < Len(data.children)

\* C2: in fetch_subreddit_posts a failed page request ends the loop: the call
\* returns, without raising, exactly the records accumulated before the
\* request, and no request follows a failed one.
C2_FailedPageEndsFetch ==
    [][ fn = "fetch_subreddit_posts" =>
          /\ (requests' = requests + 1 /\ RequestFailed') =>
                (pc' = "done" /\ result' = all_posts /\ all_posts' = all_posts)
          /\ RequestFailed => requests' = requests ]_vars

\* C2's case: a page request answered with an error status after records were
\* accumulated from earlier pages.
C2_FailedAfterPages ==
    /\ fn = "fetch_subreddit_posts"
    /\ requests >= 2
    /\ outcome = "response"
    /\ RaisesForStatus(response.status)
    /\ pc = "done"
    /\ Len(result) > 0

\* C3: in scrape_user_data a failed request for a page k >= 2 ends the loop
\* with the items of pages 1..k-1 as the result, none of them appended twice.
C3_FailedUserPageEndsLoop ==
    (fn = "scrape_user_data" /\ requests >= 2 /\ RequestFailed) =>
        /\ pc = "done"
        /\ result = all_items
        /\ NoDuplicates(all_items)

\* C4: when session.get raises without a response, scrape_post_details
\* returns None, handle_search returns [] and scrape_user_data (first page)
\* returns []; no exception escapes.
C4_TransportErrorIsSwallowed ==
    (outcome = "raise" /\ requests = 1) =>
        /\ fn = "scrape_post_details" => (pc = "done" /\ result = None)
        /\ fn \in SearchFns => (pc = "done" /\ result = <<>>)
        /\ fn = "scrape_user_data" => (pc = "done" /\ result = <<>>)

\* C5: on a terminal error status (raise_for_status raises on an assigned
\* response) scrape_post_details returns None and handle_search returns [],
\* without parsing the body and without raising.
C5_TerminalStatusIsSwallowed ==
    (outcome = "response" /\ RaisesForStatus(response.status)) =>
        /\ fn = "scrape_post_details" =>
              (pc = "done" /\ result = None /\ json_calls = 0)
        /\ fn \in SearchFns =>
              (pc = "done" /\ result = <<>> /\ json_calls = 0)

\* C5's case: a search answered with 403 or 404 has returned.
C5_SearchRefused ==
    /\ fn \in SearchFns
    /\ outcome = "response"
    /\ response.status \in ErrorStatuses
    /\ pc = "done"

\* C6: with a filter list supplied to fetch_subreddit_posts, the
\* link_flair_text of every record is a member of the filter, posts without
\* the key included.
C6_ReturnedFlairsInFilter ==
    (fn = "fetch_subreddit_posts" /\ args.filter.type = "list" /\ args.filter.items # {}) =>
        \A i \in 1 .. Len(all_posts) : all_posts[i].link_flair_text \in args.filter.items

\* C7: fetch_subreddit_posts called with a category outside hot, top, new,
\* userhot, usertop, usernew raises ValueError with no request issued,
\* whatever limit, time_filter and filter are.
C7_InvalidCategoryRaisesBeforeIO ==
    (fn = "fetch_subreddit_posts"
        /\ args.category \notin {"hot", "top", "new", "userhot", "usertop", "usernew"}) =>
        (pc = "raised" /\ exc = "ValueError" /\ requests = 0)

\* C7's case: a call with a category that is not accepted, a limit above the
\* page cap and a filter has raised.
C7_BogusCategoryRaised ==
    /\ fn = "fetch_subreddit_posts"
    /\ args.category = "bogus"
    /\ args.limit = BigLimit
    /\ args.time_filter = "week"
    /\ args.filter.items # {}
    /\ pc = "raised"

\* C8: in fetch_subreddit_posts and scrape_user_data every sleep is followed
\* by another page request: no call ends with a sleep as its last I/O event.
C8_NoSleepAfterFinalRequest ==
    (fn \in ListingFns /\ pc \in {"done", "raised"}) => io # "sleep"

\* C9: every page request of fetch_subreddit_posts asks for
\* min(100, limit - records accumulated so far) items.
C9_RequestsRemaining ==
    [][ (fn = "fetch_subreddit_posts" /\ requests' = requests + 1) =>
            sent'.limit = Min(100, args.limit - Len(all_posts)) ]_vars

\* C9 as amended: every page request of fetch_subreddit_posts asks for
\* min(100, limit) items, the same number on every page of the call.
C9_RequestsBatchSize ==
    [][ (fn = "fetch_subreddit_posts" /\ requests' = requests + 1) =>
            sent'.limit = Min(100, args.limit) ]_vars

\* C9's case: a second page request that asks for more items than are still needed.
C9_LaterPageAsksMore ==
    /\ fn = "fetch_subreddit_posts"
    /\ requests = 2
    /\ pc = "fsp_for"
    /\ idx = 1
    /\ total_fetched > 0
    /\ sent.limit > args.limit - total_fetched

PassesAllowList(post) ==
    (args.filter.type = "list" /\ args.filter.items # {}) =>
        post.flair \in args.filter.items

\* The posts of the pages fetched that pass the allow-list, in server order.
PassingFeed == SelectSeq(feed, PassesAllowList)

\* The last response was a 200 whose body is a listing.
GotListing ==
    /\ outcome = "response"
    /\ response.status = 200
    /\ response.body.json = "listing"

\* C11: in fetch_subreddit_posts and scrape_user_data a 200 response whose
\* body is not JSON, or lacks data/children, ends the loop and the call
\* returns the records accumulated so far; no exception escapes.
C11_BadBodyEndsLoop ==
    (fn \in ListingFns /\ outcome = "response" /\ response.status = 200
        /\ response.body.json \in {"invalid", "nodata"}) =>
        /\ pc = "done"
        /\ result = IF fn = "scrape_user_data" THEN all_items ELSE all_posts

\* C13: the result of fetch_subreddit_posts is the first min(limit, n)
\* posts, in server order, of the n posts of the fetched pages that pass the
\* filter.
C13_ResultIsPrefixOfPassing ==
    (fn = "fetch_subreddit_posts" /\ pc = "done") =>
        LET m == Min(args.limit, Len(PassingFeed))
        IN  /\ Len(result) = m
            /\ \A i \in 1 .. m : result[i].id = PassingFeed[i].id

\* C14: when the response to a page of fetch_subreddit_posts has an empty or
\* absent cursor, or no items, the call ends there, and its result has as many
\* records as posts of the fetched pages pass the filter whenever that number
\* is below limit.
C14_EndOfListingReturnsAllPassing ==
    (fn = "fetch_subreddit_posts" /\ GotListing
        /\ (Falsy(response.body.after) \/ response.body.children = <<>>)
        /\ pc \in {"done", "fsp_while"}) =>
        /\ pc = "done"
        /\ Len(PassingFeed) < args.limit => Len(result) = Len(PassingFeed)

\* C15: in fetch_subreddit_posts and scrape_user_data the first request
\* carries no cursor, and every later request follows a response to the
\* request before it and carries the cursor of that response.
C15_CursorEchoedFromLastResponse ==
    [][ (fn \in ListingFns /\ requests' = requests + 1) =>
          IF requests = 0
          THEN sent'.after = None
          ELSE GotListing /\ sent'.after = response.body.after ]_vars

\* Calls of handle_search and scrape_post_details with every attempt of the
\* session.get in view.
NextRetry ==
    \/ \E f \in {"search_reddit", "search_subreddit"}, l \in SmallLimits : SearchCall(f, l)
    \/ DetailCall
    \/ \E a \in AttemptOutcomes(ListingBodies(0, {"t3"}, {NoKey})) : SearchAttempt(a)
    \/ \E a \in AttemptOutcomes(DetailBodies(1)) : DetailAttempt(a)
    \/ SearchDeliver
    \/ DetailDeliver

\* _extract_comments followed call by call.
RecAny == pc = "idle" /\ \E cs \in CommentListings : RecCall(cs)

NextRecursion ==
    \/ RecAny
    \/ RecSkip
    \/ RecLeaf
    \/ RecDescend
    \/ RecReturn

\* Calls of _convert_timestamp, directly and for the items of a user feed.
NextTimestamp ==
    \/ \E t \in TimestampValues, z \in TimeZones : ConvertCall(t, z)
    \/ \E k \in {"t3", "t1"}, h \in BOOLEAN, t \in TimestampValues, z \in TimeZones :
          UserItemCall(k, h, t, z)

\* Runs of example.py's scrape_subreddit_data.
ExampleOutcomes == Outcomes(DetailBodies(0))
ExampleAny ==
    pc = "idle" /\ \E n \in 0 .. MaxPosts, f \in FoundFiles, r \in BOOLEAN : ExampleCall(n, f, r)
ExampleStep == pc = "ex_for" /\ \E o \in ExampleOutcomes : ExampleFor(o)

NextExample ==
    \/ ExampleAny
    \/ ExampleStep

\* Calls on the Reddit data sheet, one after another, from an empty sheet.
AddAny == \E post \in SheetPosts : AddCall(post)
NextSheets ==
    \/ GetWorksheetCall
    \/ AddAny
    \/ GetFirstCall
    \/ MarkCall

\* One call of batch_add_to_sheets.
RECURSIVE PostLists(_)
PostLists(n) ==
    IF n = 0 THEN {<<>>}
    ELSE PostLists(n - 1) \cup { Append(l, post) : l \in { x \in PostLists(n - 1) : Len(x) = n - 1 },
                                                  post \in SheetPosts }
BatchLists == PostLists(MaxBatch)
BatchAny == pc = "idle" /\ \E list \in BatchLists, d \in {0, 1} : BatchCall(list, d)
NextBatch ==
    \/ BatchAny
    \/ BatchFor

Spec == Init /\ [][Next]_vars
SpecComments == Init /\ [][NextComments]_vars
SpecRetry == Init /\ [][NextRetry]_vars
PuterAny == \E keys \in KeyLists(MaxKeys) : PuterCall(keys)
ClaudeAny == \E o \in PostOutcomes : ClaudeAttempt(o)
GptAny == \E o \in PostOutcomes : GptAttempt(o)
NextPuter ==
    \/ PuterAny
    \/ ClaudeAny
    \/ GptAny
SpecPuter == Init /\ [][NextPuter]_vars
SpecSheets == Init /\ [][NextSheets]_vars
SpecBatch == Init /\ [][NextBatch]_vars
SpecExample == Init /\ [][NextExample]_vars
SpecTimestamp == Init /\ [][NextTimestamp]_vars
\* The interpreter goes on running a call that has a step to take.
SpecRecursion == Init /\ [][NextRecursion]_vars /\ WF_vars(RecStep)
\* ----------------------------------------------------------- comment trees
\* The nodes below a raw node, whatever its kind.
Below(c) == c.replies.children

\* The places of the raw nodes that are t1 mappings under t1 mappings only.
RECURSIVE KeptPaths(_)
KeptPaths(cs) ==
    UNION { IF cs[i].kind = "t1"
            THEN {cs[i].author} \cup KeptPaths(Below(cs[i]))
            ELSE {} : i \in DOMAIN cs }

\* The nodes of an extracted tree, and how many they are.
RECURSIVE OutNodes(_)
OutNodes(out) == UNION { {out[i]} \cup OutNodes(out[i].replies) : i \in DOMAIN out }

RECURSIVE OutCount(_, _)
OutCount(out, i) ==
    IF i > Len(out) THEN 0 ELSE 1 + OutCount(out[i].replies, 1) + OutCount(out, i + 1)

\* Siblings keep their relative order, and every reply sits under its parent.
RECURSIVE ShapeKept(_)
ShapeKept(out) ==
    /\ \A i, j \in DOMAIN out : i < j => out[i].score < out[j].score
    /\ \A i \in DOMAIN out :
        /\ \A k \in DOMAIN out[i].replies :
              out[i].replies[k].author = out[i].author \o <<out[i].replies[k].score>>
        /\ ShapeKept(out[i].replies)

\* The raw node at a place of a raw listing.
RECURSIVE RawAt(_, _)
RawAt(cs, p) == IF Len(p) = 1 THEN cs[p[1]] ELSE RawAt(Below(cs[p[1]]), Tail(p))

\* Nesting depth of an extracted tree, and of the t1 part of a raw listing.
RECURSIVE Depth(_)
Depth(out) == SetMax({0} \cup { 1 + Depth(out[i].replies) : i \in DOMAIN out })

RECURSIVE T1Depth(_)
T1Depth(cs) ==
    SetMax({0} \cup { 1 + T1Depth(Below(cs[i])) : i \in { j \in DOMAIN cs : cs[j].kind = "t1" } })

T1ChildrenOf(c) == Cardinality({ i \in DOMAIN Below(c) : Below(c)[i].kind = "t1" })

Extracted == fn = "_extract_comments" /\ pc = "done"

\* C12: scrape_post_details returns None, without raising, for a fetched
\* JSON body that is not a list of at least two elements; for a list of two
\* well-formed listings it returns a mapping with exactly the keys title,
\* body and comments, comments being the extraction of element 1's children.
C12_PostDetailsOrNone ==
    (/\ fn = "scrape_post_details"
     /\ pc \in {"done", "raised"}
     /\ outcome = "response"
     /\ response.status = 200)
    => /\ response.body.json \in {"nodata", "short"} => pc = "done" /\ result = None
       /\ response.body.json = "detail" =>
            /\ pc = "done"
            /\ DOMAIN result = {"title", "body", "comments"}
            /\ result.title = response.body.post.title
            /\ result.comments = ExtractComments(response.body.children)

C12_DetailsWithComments ==
    /\ fn = "scrape_post_details"
    /\ pc = "done"
    /\ outcome = "response"
    /\ response.body.json = "detail"
    /\ Len(result.comments) >= 1
    /\ Len(response.body.children) > Len(result.comments)

\* C18: _extract_comments emits one node for exactly the input nodes that are
\* t1 mappings under t1 mappings only; every other node is dropped with all
\* below it, and sibling order is preserved.
C18_ExactlyT1ChainsKept ==
    Extracted =>
        /\ { n.author : n \in OutNodes(result) } = KeptPaths(comments)
        /\ OutCount(result, 1) = Cardinality(KeptPaths(comments))
        /\ ShapeKept(result)

C18_SubtreeDropped ==
    /\ Extracted
    /\ Len(result) >= 1
    /\ \E i \in DOMAIN comments :
        /\ comments[i].kind = "more"
        /\ \E k \in DOMAIN Below(comments[i]) : Below(comments[i])[k].kind = "t1"

\* C19: for every t1 node kept, the output node's replies are the extraction
\* of the nested listing when the raw replies field is one, and [] when it is
\* the empty string or absent; the output tree is as deep as the t1 part of
\* the input.
C19_RepliesFollowNesting ==
    Extracted =>
        /\ \A n \in OutNodes(result) :
            LET raw == RawAt(comments, n.author)
            IN  IF raw.replies.type = "dict"
                THEN Len(n.replies) = T1ChildrenOf(raw)
                ELSE n.replies = <<>>
        /\ Depth(result) = T1Depth(comments)

C19_NestedAndSentinel ==
    /\ Extracted
    /\ Depth(result) >= 2
    /\ \E n \in OutNodes(result) : RawAt(comments, n.author).replies.type = "str"
    /\ \E n \in OutNodes(result) : RawAt(comments, n.author).replies.type = "absent"


\* ------------------------------------------------------------------ retries
\* The session.get ended with a 200 after forcelisted responses only (or none).
GotOKAfterForcelisted ==
    /\ delivered.kind = "response"
    /\ delivered.status = 200
    /\ seen \ {200} \subseteq Forcelist

\* C16: a request that receives k forcelisted responses (1 <= k <= 5) and
\* then a 200 is still in progress after each of the k, and the calling
\* function ends as it does for that 200 body alone: one session.get, that
\* response, and the result (or exception) the body gives.
C16_ForcelistedThenOKAsImmediate ==
    /\ (seen # {} /\ seen \subseteq Forcelist /\ attempts <= RetryTotal) => delivered = Pending
    /\ (GotOKAfterForcelisted /\ pc \in {"done", "raised"}) =>
        /\ requests = 1
        /\ response = Response(delivered)
        /\ delivered.body.json = "invalid" => pc = "raised" /\ exc = "JSONDecodeError"
        /\ (fn \in SearchFns /\ delivered.body.json = "listing") =>
              pc = "done" /\ result = SearchResults(delivered.body.children)
        /\ (fn = "scrape_post_details" /\ delivered.body.json = "detail") =>
              pc = "done" /\ result = PostDetails(delivered.body)

C16_OKOnLastRetry ==
    /\ GotOKAfterForcelisted
    /\ attempts = RetryTotal + 1
    /\ fn \in SearchFns
    /\ pc = "done"
    /\ Len(result) >= 1

\* C17 as stated: a request whose attempt fails with a status outside the
\* forcelist or with a network error (status 0) is attempted exactly once and
\* the failure reaches the caller; no request is attempted more than 1 + 5
\* times.
C17_OnlyForcelistRetried ==
    /\ attempts <= RetryTotal + 1
    /\ (seen # {} /\ seen \subseteq ErrorStatuses \cup {0}) =>
          attempts = 1 /\ delivered # Pending

\* C17, amended: forcelisted statuses and network errors are retried, at most
\* 5 times, and only then does the session.get raise; a response with any
\* other status ends the request at once and is handed to the caller.
C17_ForcelistAndNetworkRetried ==
    /\ attempts <= RetryTotal + 1
    /\ attempts = (RetryTotal - retry_total) + (IF delivered.kind = "response" THEN 1 ELSE 0)
    /\ \A s \in seen \ (Forcelist \cup {0}) : delivered.kind = "response" /\ delivered.status = s
    /\ delivered.kind = "response" => delivered.status \notin Forcelist
    /\ delivered = RaiseOutcome => attempts = RetryTotal + 1
    /\ (seen # {} /\ seen \subseteq ErrorStatuses) => attempts = 1

C17_NetworkErrorsExhaustBudget ==
    /\ delivered = RaiseOutcome
    /\ seen = {0}
    /\ attempts = RetryTotal + 1
    /\ pc = "raised"


\* ---------------------------------------------------------- recursion depth
\* The longest chain of t1 nodes, each with a nested listing for replies and
\* each in the listing of the one before.
RECURSIVE DictDepth(_)
DictDepth(cs) ==
    SetMax({0} \cup { 1 + DictDepth(Below(cs[i])) :
                        i \in { j \in DOMAIN cs : cs[j].kind = "t1" /\ cs[j].replies.type = "dict" } })

\* C21 as stated: the recursion depth of _extract_comments (the number of
\* calls active at once) equals the depth of nesting of t1 nodes in the
\* input, for an input with a t1 node.
C21_DepthEqualsT1Nesting ==
    (Extracted /\ T1Depth(comments) >= 1) => max_depth = T1Depth(comments)

\* C21, amended: every call of _extract_comments ends, with the extraction of
\* its input; the number of calls active at once never exceeds the t1 nesting
\* depth plus one, and its maximum is one more than the longest chain of t1
\* nodes whose replies are nested listings, which is the t1 nesting depth or
\* one more.
C21_TerminatesAtNestingDepth ==
    /\ [](fn = "_extract_comments" =>
            /\ Len(stack) <= max_depth
            /\ max_depth <= T1Depth(comments) + 1
            /\ pc = "done" =>
                /\ result = ExtractComments(comments)
                /\ max_depth = 1 + DictDepth(comments)
                /\ max_depth >= T1Depth(comments))
    /\ (pc = "ec_for" ~> pc = "done")

C21_OneCallDeeperThanNesting ==
    /\ Extracted
    /\ T1Depth(comments) >= 2
    /\ max_depth = T1Depth(comments) + 1


C24_FalsyTimestampGivesEmptyDate ==
    /\ (fn = "_convert_timestamp" /\ pc # "idle") =>
        /\ pc = "done"
        /\ (unix_timestamp.type = "NoneType" \/ unix_timestamp.v = 0) <=> result = <<>>
        /\ (unix_timestamp.type = "int" /\ unix_timestamp.v # 0) =>
              /\ Len(result) = 19
              /\ result[5] = "-" /\ result[11] = " " /\ result[14] = ":"
    /\ (fn = "scrape_user_data item" /\ pc # "idle") =>
        /\ pc = "done"
        /\ ~result.has_key => result.created_date = <<>>
        /\ result.created_date = <<>> <=>
              (result.created_utc.type = "NoneType" \/ result.created_utc.v = 0)

C24_ItemWithoutCreatedUtc ==
    /\ fn = "scrape_user_data item"
    /\ pc = "done"
    /\ ~result.has_key
    /\ result.created_date = <<>>


\* ------------------------------------------------------- requests per call
\* The served posts that a non-empty list filter rejects.
Rejected ==
    { j \in DOMAIN feed :
        /\ args.filter.type = "list" /\ args.filter.items # {}
        /\ feed[j].flair # NoKey
        /\ feed[j].flair \notin args.filter.items }

\* C25 as stated: a call of fetch_subreddit_posts with limit >= 1 issues at
\* most `limit` page requests, and none for limit <= 0, for every filter
\* argument and every sequence of server responses.
C25_AtMostLimitRequests ==
    fn = "fetch_subreddit_posts" =>
        /\ args.limit <= 0 => requests = 0
        /\ args.limit >= 1 => requests <= args.limit

\* C25, amended: every iteration that does not end the loop appends a post
\* or, under a non-empty list filter, skips one; so without such a filter a
\* call issues at most `limit` requests (none for limit <= 0), and with one at
\* most one more than the posts appended and rejected.
C25_RequestsBoundedByPostsSeen ==
    fn = "fetch_subreddit_posts" =>
        /\ args.limit <= 0 => requests = 0
        /\ requests <= total_fetched + Cardinality(Rejected) + 1
        /\ pc = "fsp_while" => requests <= total_fetched + Cardinality(Rejected)
        /\ (Rejected = {} /\ args.limit >= 1) => requests <= args.limit

C25_MoreRequestsThanLimit ==
    /\ fn = "fetch_subreddit_posts"
    /\ pc = "done"
    /\ args.limit = 1
    /\ requests = 3
    /\ Len(result) = 1


\* --------------------------------------------------------------- example.py
\* The records a file holds: those of its list, none when missing or corrupt.
Held(f) == IF f.state = "list" THEN f.records ELSE <<>>

\* The detail fetches that gave a mapping, in the order made.
Succeeded == SelectSeq(fetches, LAMBDA x : x.end = "mapping")

InExample == fn = "scrape_subreddit_data"

\* C22: a run of scrape_subreddit_data leaves the file holding the records it
\* held before (none if it was missing or corrupt), unchanged and in order,
\* followed by one record per post whose detail fetch succeeded, in listing
\* order; the file is rewritten once per appended record.
C22_FileIsOldPlusSucceeded ==
    InExample =>
        /\ Len(Held(file)) = Len(Held(file0)) + Len(Succeeded)
        /\ \A k \in 1 .. Len(Held(file0)) : Held(file)[k] = Held(file0)[k]
        /\ \A k \in 1 .. Len(Succeeded) :
              Held(file)[Len(Held(file0)) + k].post = Succeeded[k].post
        /\ \A k \in 1 .. Len(fetches) : fetches[k].post = posts[k]
        /\ writes = Len(Succeeded)
        /\ IF writes = 0 THEN file = file0 ELSE file.state = "list"

C22_AppendedToOldRecords ==
    /\ InExample
    /\ pc = "done"
    /\ Len(Held(file0)) = 2
    /\ Len(posts) = 3
    /\ Len(Held(file)) = 4

\* C26: in scrape_subreddit_data a post whose detail fetch fails does not
\* affect the others: once the listing was fetched, every post of it is
\* fetched, and each post whose detail fetch succeeds is in the file.
C26_FailedPostOnlySkipped ==
    (InExample /\ pc = "done" /\ posts # <<>>) =>
        /\ Len(fetches) = Len(posts)
        /\ \A k \in 1 .. Len(fetches) :
              fetches[k].end = "mapping" =>
                  \E j \in DOMAIN Held(file) : Held(file)[j].post = fetches[k].post

\* The data rows of the sheet that hold the post's title and author after
\* trimming and lower-casing.
RowsOf(sh, post) ==
    { r \in 2 .. Len(sh) : /\ Normalize(sh[r][1]) = Normalize(post.title)
                           /\ Normalize(sh[r][2]) = Normalize(post.author) }

\* C28: from an empty or header-only Reddit data sheet, after any calls of
\* add_to_sheet no two data rows hold the same (title, author) pair after
\* trimming and lower-casing; a call returns False exactly when the sheet
\* already held the pair, and then leaves the sheet as it was.
C28_NoDuplicateRows ==
    /\ \A i, j \in 2 .. Len(sheet) :
          i # j => ~(/\ Normalize(sheet[i][1]) = Normalize(sheet[j][1])
                     /\ Normalize(sheet[i][2]) = Normalize(sheet[j][2]))
    /\ fn = "add_to_sheet" =>
          /\ result.ok = (RowsOf(sheet_before, sh_post) = {})
          /\ ~result.ok => sheet = sheet_before
          /\ result.ok => Len(sheet) = SetMax({Len(sheet_before), 1}) + 1

\* C28, its case: add_to_sheet refused a post whose title and author are
\* written differently from every row of the sheet.
C28_RefusedRespelledDuplicate ==
    /\ fn = "add_to_sheet"
    /\ ~result.ok
    /\ Len(sheet) >= 3
    /\ \A r \in 2 .. Len(sheet) : sheet[r][1] # sh_post.title /\ sheet[r][2] # sh_post.author

\* C27: once mark_post_as_done has succeeded for the post that
\* get_first_unprocessed_post returned, get_first_unprocessed_post does not
\* return that row again.
C27_MarkedPostNotReturnedAgain ==
    (fn = "get_first_unprocessed_post" /\ result.type = "post") => result.row \notin done_rows

\* C30: with delay > 0, batch_add_to_sheets has slept len(post_data_list) - 1
\* times when it returns from a non-empty list.
C30_SleepsAfterAllButLast ==
    (fn = "batch_add_to_sheets" /\ pc = "done" /\ delay > 0 /\ batch # <<>>)
        => naps = Len(batch) - 1

\* The attempts create makes when every one of them fails: Claude with each
\* key in list order, then GPT-4o with each key in list order.
Schedule(n) ==
    [k \in 1 .. 2 * n |-> IF k <= n THEN [model |-> "claude", key |-> k]
                                    ELSE [model |-> "gpt-4o", key |-> k - n]]
\* A response holding the text the model's branch looks for.
HasText(a) ==
    \/ a.model = "claude" /\ a.response = "blocks"
    \/ a.model = "gpt-4o" /\ a.response = "string"
InCreate == fn = "ChatCompletion.create"

\* The attempts made are the first ones of the schedule, so at most twice the
\* number of keys, and the error mapping is returned only after all of them
\* were made and none held a text.
ScheduleFollowed ==
    InCreate =>
        /\ Len(tried) <= 2 * Len(api_keys_list)
        /\ \A k \in DOMAIN tried :
              /\ tried[k].model = Schedule(Len(api_keys_list))[k].model
              /\ tried[k].key = Schedule(Len(api_keys_list))[k].key
        /\ (pc = "done" /\ result = ErrorMapping) =>
              /\ Len(tried) = 2 * Len(api_keys_list)
              /\ \A k \in DOMAIN tried : ~HasText(tried[k])

\* C29: create tries Claude with every key in order, then GPT-4o with every
\* key in order, at most twice the number of keys in all; it stops at the
\* first attempt whose response is well formed and returns its text: when it
\* has returned, the value is a text or the error mapping, and no attempt but
\* the last one held a text.
C29_StopsAtFirstTextAndReturnsIt ==
    /\ ScheduleFollowed
    /\ (InCreate /\ pc = "done") =>
        /\ result \in {ValueRet("str"), ErrorMapping}
        /\ result = ValueRet("str") => HasText(tried[Len(tried)])
        /\ \A k \in 1 .. Len(tried) - 1 : ~HasText(tried[k])

====
